---- MODULE Spec2Model ----
(***************************************************************************)
(* State-machine model of growth_mindset.py: the JSON document store       *)
(* (load_data / save_data), the metrics (calculate_streak,                 *)
(* get_weekly_progress) and the Streamlit handlers that run a              *)
(* load-mutate-save cycle on the shared document.                          *)
(*                                                                         *)
(* A Streamlit session is one script run at a time; sessions run in        *)
(* separate threads of the same server and share app_data.json.            *)
(***************************************************************************)
EXTENDS Integers, Sequences, FiniteSets, TLC

VARIABLES
    file,       \* app_data.json: [exists, text]; text is a sequence of tokens
    today,      \* datetime.date.today(), as a day ordinal
    nextId,     \* source of uuid.uuid4(): ids already handed out are < nextId
    auth,       \* per session: st.session_state.authenticated, or NoUser
    pc,         \* per session: position of the running script
    data,       \* per session: the handler's local `data`
    op,         \* per session: the widget that fired in the current run
    liked,      \* per session (observer): the like of the latest run, or NoOp
    win,        \* per session (observer): how the cycle lies against the other's
    races,      \* (observer) loads that started while another run was in progress
    committed,  \* (observer) what load_data returned of the file at the last close
    dates,      \* argument of calculate_streak
    streak,     \* result of calculate_streak, NoResult before the call
    progress    \* result of get_weekly_progress, NoProgress before the call

metricVars == <<dates, streak, progress>>

vars == <<file, today, nextId, auth, pc, data, op, liked, win, races, committed,
          metricVars>>

---------------------------------------------------------------------------
(* Bounds of the model. *)

MaxDates == 3       \* length of the list passed to calculate_streak
MaxBack == 4        \* how far before today the dates of that list reach
MaxWeekly == 3      \* completions in the document get_weekly_progress reads
MaxOlder == 2       \* days before the 7-day window a completion may carry
MaxCompleted == 1   \* completed_challenges records a session appends to
MaxIds == 2         \* uuid4 values drawn (journal entries + posts created)
MaxLikes == 2       \* like-count up to which the like button is pressed
MaxDay == 1         \* days the clock advances past the first day
MaxRaces == 1       \* script runs that start while another is in progress

Sessions == {1, 2}
Users == {"alice", "bob"}
NoUser == ""
Texts == {"a"}
Challenges == {"Reflect on one mistake and what it taught you"}
NoResult == [done |-> FALSE]
NoProgress == [done |-> FALSE]
NoData == [none |-> TRUE]
NoOp == [kind |-> "none", id |-> 0, seen |-> 0]

---------------------------------------------------------------------------
(* datetime.date: a day is its ordinal; an ISO string is <<year, month,    *)
(* day>>.  Ordinal 0 is 2024-02-20, so that the days of the model cross    *)
(* the end of February.                                                    *)

IsoFormat(d) ==
    IF d <= 9 THEN <<2024, 2, 20 + d>> ELSE <<2024, 3, d - 9>>

FromIsoFormat(s) ==
    IF s[2] = 2 THEN s[3] - 20 ELSE s[3] + 9

FirstDay == FromIsoFormat(<<2024, 2, 29>>)

---------------------------------------------------------------------------
(* json.dump / json.load over a token stream.                              *)

Tok(t, v) == [t |-> t, v |-> v]
Punct(t) == Tok(t, [p |-> t])
KeyTok(k) == Tok("key", [name |-> k])
ItemTok(e) == Tok("item", e)

Keys == <<"journal_entries", "completed_challenges", "community_posts", "users">>

EmptyDocument ==
    [journal_entries |-> <<>>, completed_challenges |-> <<>>,
     community_posts |-> <<>>, users |-> <<>>]

IsDocument(v) == {Keys[i] : i \in 1..Len(Keys)} \subseteq DOMAIN v

DumpArray(seq) ==
    <<Punct("[")>> \o [i \in 1..Len(seq) |-> ItemTok(seq[i])] \o <<Punct("]")>>

RECURSIVE DumpMembers(_, _)
DumpMembers(doc, i) ==
    IF i > Len(Keys) THEN <<>>
    ELSE IF Keys[i] \in DOMAIN doc
        THEN <<KeyTok(Keys[i])>> \o DumpArray(doc[Keys[i]]) \o DumpMembers(doc, i + 1)
    ELSE DumpMembers(doc, i + 1)

JsonDump(doc) == <<Punct("{")>> \o DumpMembers(doc, 1) \o <<Punct("}")>>

JSONDecodeError == [ok |-> FALSE]

RECURSIVE ParseMembers(_, _, _)
ParseMembers(text, i, acc) ==
    IF i > Len(text) THEN JSONDecodeError
    ELSE IF text[i].t = "}"
        THEN IF i = Len(text) THEN [ok |-> TRUE, value |-> acc]
             ELSE JSONDecodeError
    ELSE IF text[i].t = "key" /\ i + 1 <= Len(text) /\ text[i + 1].t = "["
        THEN LET close == {j \in (i + 2)..Len(text) :
                              /\ text[j].t = "]"
                              /\ \A k \in (i + 2)..(j - 1) : text[k].t = "item"}
             IN IF close = {} THEN JSONDecodeError
                ELSE LET j == CHOOSE c \in close : TRUE
                         items == [k \in 1..(j - i - 2) |-> text[i + 1 + k].v]
                     IN ParseMembers(text, j + 1,
                                     (text[i].v.name :> items) @@ acc)
    ELSE JSONDecodeError

JsonLoad(text) ==
    IF Len(text) >= 1 /\ text[1].t = "{"
    THEN ParseMembers(text, 2, <<>>)
    ELSE JSONDecodeError


---------------------------------------------------------------------------
(* Data persistence. *)

NoFile == [exists |-> FALSE, text |-> <<>>]

\* load_data: FileNotFoundError and JSONDecodeError give the empty document;
\* whatever json.load accepts is returned as it is.
load_data(f) ==
    IF ~f.exists THEN EmptyDocument
    ELSE LET r == JsonLoad(f.text)
         IN IF r.ok THEN r.value ELSE EmptyDocument

\* open(DATA_FILE, "w"): creates the file or truncates it to length 0.
OpenForWrite(f) == [exists |-> TRUE, text |-> <<>>]

\* The text json.dump left in the handle's buffer reaches the file, at the
\* handle's offset 0, when the with-block closes the handle (documents here
\* are smaller than the buffer).  What the file holds beyond the written
\* length stays.
WriteAtStart(f, text) ==
    LET n == IF Len(f.text) > Len(text) THEN Len(f.text) ELSE Len(text)
    IN [exists |-> TRUE,
        text |-> [i \in 1..n |-> IF i <= Len(text) THEN text[i] ELSE f.text[i]]]

\* save_data run to its end with nothing in between.
Saved(doc) == WriteAtStart(OpenForWrite(NoFile), JsonDump(doc))

---------------------------------------------------------------------------
(* The handlers' reads and mutations of the loaded document. *)

UserNames(doc) == {doc.users[i].name : i \in 1..Len(doc.users)}

JoinedOf(doc, u) ==
    LET i == CHOOSE k \in 1..Len(doc.users) : doc.users[k].name = u
    IN doc.users[i].joined

PostIds(doc) == {doc.community_posts[i].id : i \in 1..Len(doc.community_posts)}

PostOf(doc, id) ==
    LET i == CHOOSE k \in 1..Len(doc.community_posts) :
                 doc.community_posts[k].id = id
    IN doc.community_posts[i]

EntryIds(doc) == {doc.journal_entries[i].id : i \in 1..Len(doc.journal_entries)}

EntryOf(doc, id) ==
    LET i == CHOOSE k \in 1..Len(doc.journal_entries) :
                 doc.journal_entries[k].id = id
    IN doc.journal_entries[i]

\* Faulty variant of IsNewUser: the login writes the user record every time.
IsNewUserAlways(doc, u) == TRUE

\* `if username not in data["users"]`
IsNewUser(doc, u) == u \notin UserNames(doc)

\* data["users"][username] = {"joined": datetime.date.today().isoformat()}
AddUser(doc, u, now) ==
    LET rec == [name |-> u, joined |-> IsoFormat(now)]
    IN [doc EXCEPT !.users =
           IF u \in UserNames(doc)
           THEN [i \in 1..Len(@) |-> IF @[i].name = u THEN rec ELSE @[i]]
           ELSE Append(@, rec)]

\* data["completed_challenges"].append({...})
AppendChallenge(doc, c, u, now) ==
    [doc EXCEPT !.completed_challenges =
        Append(@, [date |-> IsoFormat(now), challenge |-> c, user |-> u])]

\* data["journal_entries"].append(new_entry)
AppendEntry(doc, id, text, u, now) ==
    [doc EXCEPT !.journal_entries =
        Append(@, [id |-> id, date |-> IsoFormat(now), reflection |-> text,
                   lessons |-> "", mood |-> "neutral", tags |-> <<>>,
                   user |-> u])]

\* Faulty variant of RemoveEntry: deletes by owner instead of by id.
RemoveEntriesOfUser(doc, id) ==
    [doc EXCEPT !.journal_entries =
        SelectSeq(@, LAMBDA e : e.user # EntryOf(doc, id).user)]

\* [e for e in data["journal_entries"] if e["id"] != entry["id"]]
RemoveEntry(doc, id) ==
    [doc EXCEPT !.journal_entries = SelectSeq(@, LAMBDA e : e.id # id)]

\* data["community_posts"].append(new_post)
AppendPost(doc, id, text, u, now) ==
    [doc EXCEPT !.community_posts =
        Append(@, [id |-> id, date |-> IsoFormat(now), content |-> text,
                   author |-> u, likes |-> 0])]

\* Faulty variant of LikePost: the increment is made on a copy and is not saved.
LikePostCopy(doc, id) == doc

\* Faulty variant of LikePost: the id test is missing.
LikeEveryPost(doc, id) ==
    [doc EXCEPT !.community_posts =
        [i \in 1..Len(@) |-> [@[i] EXCEPT !.likes = @ + 1]]]

\* post["likes"] += 1
LikePost(doc, id) ==
    [doc EXCEPT !.community_posts =
        [i \in 1..Len(@) |->
            IF @[i].id = id THEN [@[i] EXCEPT !.likes = @ + 1] ELSE @[i]]]

\* [p for p in data["community_posts"] if p["id"] != post["id"]]
RemovePost(doc, id) ==
    [doc EXCEPT !.community_posts = SelectSeq(@, LAMBDA q : q.id # id)]

\* Faulty variant of MayDeletePost: the author test is missing.
MayDeleteAnyPost(post, username) == TRUE

\* `post["author"] == username and st.button("Delete ...")`
MayDeletePost(post, username) == post.author = username

\* filtered_entries: `e["user"] == username`, with the empty search query
MayDeleteEntry(entry, username) == entry.user = username

---------------------------------------------------------------------------
(* Metrics. *)

Reversed(seq) == [i \in 1..Len(seq) |-> seq[Len(seq) + 1 - i]]

\* sorted([datetime.date.fromisoformat(d) for d in dates])
SortedDates(ds) ==
    SortSeq([i \in 1..Len(ds) |-> FromIsoFormat(ds[i])], LAMBDA a, b : a < b)

\* The for loop of calculate_streak over reversed(sorted_dates), from its
\* i-th element on.
RECURSIVE StreakLoop(_, _, _, _)
StreakLoop(rev, i, count, current_date) ==
    IF i > Len(rev) THEN count
    ELSE IF rev[i] = current_date
        THEN StreakLoop(rev, i + 1, count, current_date)
    ELSE IF current_date - rev[i] = 1
        THEN StreakLoop(rev, i + 1, count + 1, rev[i])
    ELSE count

\* Faulty variant of calculate_streak: the dates are not sorted.
calculate_streak_unsorted(ds, now) ==
    IF ds = <<>> THEN 0
    ELSE StreakLoop(Reversed([i \in 1..Len(ds) |-> FromIsoFormat(ds[i])]), 1, 1, now)

calculate_streak(ds, now) ==
    IF ds = <<>> THEN 0
    ELSE StreakLoop(Reversed(SortedDates(ds)), 1, 1, now)

WeekDays == 7

\* Faulty variant of Increment: a plain dict that counts the initialised keys only.
IncrementKnown(progress_, key) ==
    IF key \in DOMAIN progress_
    THEN [progress_ EXCEPT ![key] = @ + 1]
    ELSE progress_

\* defaultdict(int): progress[date] += 1
Increment(progress_, key) ==
    IF key \in DOMAIN progress_
    THEN [progress_ EXCEPT ![key] = @ + 1]
    ELSE (key :> 1) @@ progress_

RECURSIVE CountChallenges(_, _, _)
CountChallenges(progress_, challenges, i) ==
    IF i > Len(challenges) THEN progress_
    ELSE CountChallenges(Increment(progress_, challenges[i].date), challenges, i + 1)

get_weekly_progress(f, now) ==
    LET challenges == load_data(f).completed_challenges
        window == [k \in {IsoFormat(now - i) : i \in 0..(WeekDays - 1)} |-> 0]
    IN [done |-> TRUE, value |-> CountChallenges(window, challenges, 1)]

---------------------------------------------------------------------------
(* Sessions.  A script run loads the document (pc "loaded"); the widget    *)
(* that fired mutates the local copy and save_data opens the file (pc      *)
(* "write"); closing the file writes it (pc "idle").  The search boxes     *)
(* hold the empty query, so every post and every own entry is rendered.    *)

Busy(s) == \E o \in Sessions \ {s} : pc[o] # "idle"

\* How the cycle that s starts lies against the cycles in progress: "race"
\* when another run has loaded the same document and not yet saved.
WinAtLoad(s) ==
    [t \in Sessions |->
        IF t = s
        THEN IF \E o \in Sessions \ {s} :
                    pc[o] = "loaded" /\ data[o] = load_data(file)
             THEN "race"
             ELSE IF Busy(s) THEN "overlap" ELSE "clean"
        ELSE IF pc[t] = "loaded" /\ data[t] = load_data(file) THEN "race"
        ELSE IF pc[t] # "idle" /\ win[t] = "clean" THEN "overlap"
        ELSE win[t]]

\* The run ends without a call of save_data.
Finish(s) ==
    /\ pc' = [pc EXCEPT ![s] = "idle"]
    /\ data' = [data EXCEPT ![s] = NoData]
    /\ op' = [op EXCEPT ![s] = NoOp]
    /\ file' = file

\* The handler calls save_data(doc): open(DATA_FILE, "w").
BeginSave(s, doc, k, id, seen) ==
    /\ pc' = [pc EXCEPT ![s] = "write"]
    /\ data' = [data EXCEPT ![s] = doc]
    /\ op' = [op EXCEPT ![s] = [kind |-> k, id |-> id, seen |-> seen]]
    /\ file' = OpenForWrite(file)

\* data = load_data(), at the top of authenticate_user and of every page.
Load(s) ==
    /\ pc[s] = "idle"
    /\ Busy(s) => races < MaxRaces
    /\ races' = IF Busy(s) THEN races + 1 ELSE races
    /\ data' = [data EXCEPT ![s] = load_data(file)]
    /\ pc' = [pc EXCEPT ![s] = "loaded"]
    /\ liked' = [liked EXCEPT ![s] = NoOp]
    /\ win' = WinAtLoad(s)
    /\ UNCHANGED <<file, today, nextId, auth, op, committed, metricVars>>

\* A script run that starts when no other run is in progress.
SerialLoad(s) ==
    /\ \A t \in Sessions : pc[t] = "idle"
    /\ Load(s)

\* authenticate_user, "Login/Create Account" with a non-empty username.
Login(s, u) ==
    /\ pc[s] = "loaded"
    /\ auth[s] = NoUser
    /\ "users" \in DOMAIN data[s]
    /\ auth' = [auth EXCEPT ![s] = u]
    /\ IF IsNewUser(data[s], u)
       THEN BeginSave(s, AddUser(data[s], u, today), "login", 0, 0)
       ELSE Finish(s)
    /\ UNCHANGED <<today, nextId, liked, win, races, committed, metricVars>>

\* authenticate_user: data["users"] of a loaded value without that key.
\* session_state.authenticated is already set when the KeyError is raised.
LoginKeyError(s, u) ==
    /\ pc[s] = "loaded"
    /\ auth[s] = NoUser
    /\ "users" \notin DOMAIN data[s]
    /\ auth' = [auth EXCEPT ![s] = u]
    /\ pc' = [pc EXCEPT ![s] = "raised"]
    /\ UNCHANGED <<file, today, nextId, data, op, liked, win, races, committed, metricVars>>

\* authenticate_user, "Logout".
Logout(s) ==
    /\ pc[s] = "loaded"
    /\ auth[s] # NoUser
    /\ auth' = [auth EXCEPT ![s] = NoUser]
    /\ Finish(s)
    /\ UNCHANGED <<today, nextId, liked, win, races, committed, metricVars>>

\* daily_challenge, "Complete Challenge" on the generated challenge c.
CompleteChallenge(s, c) ==
    /\ pc[s] = "loaded"
    /\ auth[s] # NoUser
    /\ Len(data[s].completed_challenges) < MaxCompleted
    /\ BeginSave(s, AppendChallenge(data[s], c, auth[s], today), "complete", 0, 0)
    /\ UNCHANGED <<today, nextId, auth, liked, win, races, committed, metricVars>>

\* reflection_journal, "Save Entry".
SaveEntry(s, text) ==
    /\ pc[s] = "loaded"
    /\ auth[s] # NoUser
    /\ nextId <= MaxIds
    /\ nextId' = nextId + 1
    /\ BeginSave(s, AppendEntry(data[s], nextId, text, auth[s], today),
                 "save_entry", nextId, 0)
    /\ UNCHANGED <<today, auth, liked, win, races, committed, metricVars>>

\* reflection_journal, the "Delete" button of an entry.
DeleteEntry(s, id) ==
    /\ pc[s] = "loaded"
    /\ auth[s] # NoUser
    /\ id \in EntryIds(data[s])
    /\ MayDeleteEntry(EntryOf(data[s], id), auth[s])
    /\ BeginSave(s, RemoveEntry(data[s], id), "delete_entry", id, 0)
    /\ UNCHANGED <<today, nextId, auth, liked, win, races, committed, metricVars>>

\* community_wall, "Post to Community".
Post(s, text) ==
    /\ pc[s] = "loaded"
    /\ auth[s] # NoUser
    /\ nextId <= MaxIds
    /\ nextId' = nextId + 1
    /\ BeginSave(s, AppendPost(data[s], nextId, text, auth[s], today),
                 "post", nextId, 0)
    /\ UNCHANGED <<today, auth, liked, win, races, committed, metricVars>>

\* community_wall, the like button of a post.
Like(s, id) ==
    /\ pc[s] = "loaded"
    /\ auth[s] # NoUser
    /\ id \in PostIds(data[s])
    /\ PostOf(data[s], id).likes < MaxLikes
    /\ BeginSave(s, LikePost(data[s], id), "like", id, PostOf(data[s], id).likes)
    /\ liked' = [liked EXCEPT ![s] = op'[s]]
    /\ UNCHANGED <<today, nextId, auth, win, races, committed, metricVars>>

\* community_wall, the "Delete" button of a post.
DeletePost(s, id) ==
    /\ pc[s] = "loaded"
    /\ auth[s] # NoUser
    /\ id \in PostIds(data[s])
    /\ MayDeletePost(PostOf(data[s], id), auth[s])
    /\ BeginSave(s, RemovePost(data[s], id), "delete_post", id, 0)
    /\ UNCHANGED <<today, nextId, auth, liked, win, races, committed, metricVars>>

\* save_data called on its own: `with open(DATA_FILE, "w") as f`.
SaveOpen(s) ==
    /\ pc[s] = "save"
    /\ file' = OpenForWrite(file)
    /\ pc' = [pc EXCEPT ![s] = "write"]
    /\ UNCHANGED <<today, nextId, auth, data, op, liked, win, races, committed, metricVars>>

\* save_data: json.dump(data, f, indent=2) and the end of the with-block.
SaveWrite(s) ==
    /\ pc[s] = "write"
    /\ file' = WriteAtStart(file, JsonDump(data[s]))
    /\ committed' = load_data(file')
    /\ pc' = [pc EXCEPT ![s] = "idle"]
    /\ data' = [data EXCEPT ![s] = NoData]
    /\ op' = [op EXCEPT ![s] = NoOp]
    /\ UNCHANGED <<today, nextId, auth, liked, win, races, metricVars>>

\* Midnight passes between two script runs.
NextDay ==
    /\ today < FirstDay + MaxDay
    /\ \A s \in Sessions : pc[s] = "idle"
    /\ today' = today + 1
    /\ UNCHANGED <<file, nextId, auth, pc, data, op, liked, win, races, committed, metricVars>>

Handler(s) ==
    \/ \E u \in Users : Login(s, u)
    \/ Logout(s)
    \/ \E c \in Challenges : CompleteChallenge(s, c)
    \/ \E x \in Texts : SaveEntry(s, x)
    \/ \E id \in 1..MaxIds : DeleteEntry(s, id)
    \/ \E x \in Texts : Post(s, x)
    \/ \E id \in 1..MaxIds : Like(s, id)
    \/ \E id \in 1..MaxIds : DeletePost(s, id)
    \/ SaveWrite(s)

InitSessions ==
    /\ nextId = 1
    /\ auth = [s \in Sessions |-> NoUser]
    /\ pc = [s \in Sessions |-> "idle"]
    /\ data = [s \in Sessions |-> NoData]
    /\ op = [s \in Sessions |-> NoOp]
    /\ liked = [s \in Sessions |-> NoOp]
    /\ win = [s \in Sessions |-> "clean"]
    /\ races = 0

InitMetrics ==
    /\ dates = <<>>
    /\ streak = NoResult
    /\ progress = NoProgress

\* The first start of the app: no app_data.json yet.
Init ==
    /\ file = NoFile
    /\ today = FirstDay
    /\ committed = load_data(file)
    /\ InitSessions
    /\ InitMetrics

\* Sessions whose script runs interleave at load_data, open and close.
Next ==
    \/ \E s \in Sessions : Load(s)
    \/ \E s \in Sessions : Handler(s)

Spec == Init /\ [][Next]_vars

\* Script runs one at a time, over several days.
NextSerial ==
    \/ \E s \in Sessions : SerialLoad(s)
    \/ \E s \in Sessions : Handler(s)
    \/ NextDay

SpecSerial == Init /\ [][NextSerial]_vars
---------------------------------------------------------------------------
(* save_data against a concurrent load_data: session 1 saves a document    *)
(* over the persisted one while session 2 loads.                           *)

Doc1 == AddUser(EmptyDocument, "alice", FirstDay)
Doc2 == AppendPost(Doc1, 1, "a", "alice", FirstDay)
Doc3 == LikePost(Doc2, 1)
Doc4 == AppendEntry(AddUser(Doc3, "bob", FirstDay), 2, "a", "bob", FirstDay)
Doc5 == AppendChallenge(Doc4, "Reflect on one mistake and what it taught you",
                        "alice", FirstDay)
Doc6 == RemovePost(Doc5, 1)

SampleDocs == {EmptyDocument, Doc1, Doc2, Doc3, Doc4, Doc5, Doc6}

InitStore ==
    /\ \E before \in SampleDocs :
          /\ file = Saved(before)
          /\ committed = before
    /\ \E after \in SampleDocs : data = [s \in Sessions |-> IF s = 1 THEN after ELSE NoData]
    /\ pc = [s \in Sessions |-> IF s = 1 THEN "save" ELSE "idle"]
    /\ today = FirstDay
    /\ nextId = 1
    /\ auth = [s \in Sessions |-> "alice"]
    /\ op = [s \in Sessions |-> NoOp]
    /\ liked = [s \in Sessions |-> NoOp]
    /\ win = [s \in Sessions |-> "clean"]
    /\ races = 0
    /\ InitMetrics

NextStore ==
    \/ SaveOpen(1)
    \/ SaveWrite(1)
    \/ Load(2)

SpecStore == InitStore /\ [][NextStore]_vars

---------------------------------------------------------------------------
(* load_data on whatever the storage holds, followed by the login that     *)
(* reads data["users"].                                                    *)

Prefixes(text) == {SubSeq(text, 1, n) : n \in 0..Len(text)}

\* {} ; {"users": []} ; a document followed by a stray brace
OtherTexts ==
    { <<Punct("{"), Punct("}")>>,
      <<Punct("{"), KeyTok("users"), Punct("["), Punct("]"), Punct("}")>>,
      JsonDump(Doc2) \o <<Punct("}")>> }

SampleFiles ==
    {NoFile} \cup
    {[exists |-> TRUE, text |-> t] :
        t \in OtherTexts \cup UNION {Prefixes(JsonDump(d)) : d \in SampleDocs}}

InitLoad ==
    /\ file \in SampleFiles
    /\ committed = load_data(file)
    /\ today = FirstDay
    /\ InitSessions
    /\ InitMetrics

NextLoad ==
    \/ Load(1)
    \/ \E u \in Users : Login(1, u)
    \/ \E u \in Users : LoginKeyError(1, u)
    \/ SaveWrite(1)

SpecLoad == InitLoad /\ [][NextLoad]_vars

---------------------------------------------------------------------------
(* calculate_streak on a list of ISO dates none of which is after today.   *)

DateLists(now) ==
    UNION {[1..n -> {IsoFormat(now - k) : k \in 0..MaxBack}] : n \in 0..MaxDates}

InitStreak ==
    /\ file = NoFile
    /\ committed = load_data(file)
    /\ today \in FirstDay..(FirstDay + MaxDay)
    /\ InitSessions
    /\ dates \in DateLists(today)
    /\ streak = NoResult
    /\ progress = NoProgress

CalculateStreak ==
    /\ ~streak.done
    /\ streak' = [done |-> TRUE, value |-> calculate_streak(dates, today)]
    /\ UNCHANGED <<file, today, nextId, auth, pc, data, op, liked, win, races,
                   committed, dates, progress>>

SpecStreak == InitStreak /\ [][CalculateStreak]_vars

---------------------------------------------------------------------------
(* get_weekly_progress on a persisted sequence of completions, appended in *)
(* the order of their dates.                                               *)

CompletionLists(now) ==
    LET days == {IsoFormat(now - k) : k \in 0..(WeekDays - 1 + MaxOlder)}
        recs == [date : days, challenge : Challenges, user : Users]
        all == UNION {[1..n -> recs] : n \in 0..MaxWeekly}
    IN {c \in all : \A i \in 1..Len(c) : \A j \in i..Len(c) :
                       FromIsoFormat(c[i].date) <= FromIsoFormat(c[j].date)}

InitWeekly ==
    /\ today \in FirstDay..(FirstDay + MaxDay)
    /\ \E c \in CompletionLists(today) :
          file = Saved([AddUser(AddUser(EmptyDocument, "alice", 0), "bob", 0)
                           EXCEPT !.completed_challenges = c])
    /\ committed = load_data(file)
    /\ InitSessions
    /\ InitMetrics

GetWeeklyProgress ==
    /\ ~progress.done
    /\ progress' = get_weekly_progress(file, today)
    /\ UNCHANGED <<file, today, nextId, auth, pc, data, op, liked, win, races,
                   committed, dates, streak>>

SpecWeekly == InitWeekly /\ [][GetWeeklyProgress]_vars
---------------------------------------------------------------------------
(* Properties. *)

\* The step in which save_data of session s closes the file.
Completes(s) == pc[s] = "write" /\ pc'[s] = "idle"

StorageIsDocument(f) ==
    /\ f.exists
    /\ JsonLoad(f.text).ok
    /\ IsDocument(JsonLoad(f.text).value)

DaySet == {FromIsoFormat(dates[i]) : i \in 1..Len(dates)}

\* The number of consecutive days of S that end with day d.
RunEndingAt(S, d) ==
    CHOOSE n \in 0..Cardinality(S) :
        /\ \A j \in 0..(n - 1) : d - j \in S
        /\ d - n \notin S

Newest(S) == CHOOSE d \in S : \A e \in S : e <= d

Window == {IsoFormat(today - i) : i \in 0..(WeekDays - 1)}

\* Both sessions are at rest after cycles that loaded the same document
\* before either saved, and in which both liked the same post.
RacedLikes(s, t) ==
    /\ s # t
    /\ pc[s] = "idle" /\ pc[t] = "idle"
    /\ win[s] = "race" /\ win[t] = "race"
    /\ liked[s].kind = "like"
    /\ liked[t] = liked[s]

\* The save of s is the delete of post id by a session of its author.
AuthorDelete(s, id) ==
    /\ op[s].kind = "delete_post"
    /\ op[s].id = id
    /\ auth[s] = PostOf(committed, id).author

\* The save of s appended the post of its id, with no likes.
PostFrame(s) ==
    /\ Len(committed'.community_posts) = Len(committed.community_posts) + 1
    /\ SubSeq(committed'.community_posts, 1, Len(committed.community_posts))
          = committed.community_posts
    /\ committed'.community_posts[Len(committed'.community_posts)].id = op[s].id
    /\ committed'.community_posts[Len(committed'.community_posts)].likes = 0

\* The save of s added 1 to the likes of the post of its id and to nothing else.
LikeFrame(s) ==
    /\ op[s].id \in PostIds(committed)
    /\ DOMAIN committed'.community_posts = DOMAIN committed.community_posts
    /\ \A i \in DOMAIN committed.community_posts :
          IF committed.community_posts[i].id = op[s].id
          THEN committed'.community_posts[i] =
                  [committed.community_posts[i] EXCEPT !.likes = @ + 1]
          ELSE committed'.community_posts[i] = committed.community_posts[i]

\* C1: a load_data that runs while another session's save_data is in
\* progress returns the document persisted before the save or the document
\* being saved (and the saved one once the save is over), never the empty
\* fallback in place of them.
C1_AtomicSave ==
    [][(pc[2] = "idle" /\ pc'[2] = "loaded")
         => \/ data'[2] = committed
            \/ pc[1] # "idle" /\ data'[2] = data[1]]_vars

\* C2: load_data never raises and, unless the storage holds a document with
\* the four collections, the value it returns is the empty document, so the
\* login that reads data["users"] does not raise.
C2_LoadRecovers ==
    \A s \in Sessions :
        /\ pc[s] # "raised"
        /\ (pc[s] = "loaded" /\ ~StorageIsDocument(file))
              => (IsDocument(data[s]) /\ data[s] = EmptyDocument)

\* C3: for a list of dates, none after today, that contains today,
\* calculate_streak is the number of distinct days of the run of consecutive
\* days that ends today; for the empty list it is 0.
C3_StreakEndingToday ==
    streak.done =>
        /\ dates = <<>> => streak.value = 0
        /\ today \in DaySet => streak.value = RunEndingAt(DaySet, today)

\* Three distinct days with today, of which the gap leaves two in the run.
C3_Witness ==
    /\ streak.done
    /\ streak.value = 2
    /\ Len(dates) = 3
    /\ today \in DaySet
    /\ Cardinality(DaySet) = 3

\* C4: for a non-empty list of past dates without today, calculate_streak is
\* the number of distinct days of the run of consecutive days that ends at
\* the newest date of the list.
C4_StreakEndingAtNewest ==
    (streak.done /\ dates # <<>> /\ today \notin DaySet)
        => streak.value = RunEndingAt(DaySet, Newest(DaySet))

\* C5: the keys of get_weekly_progress are the 7 days ending today and the
\* dates of the persisted completions, and the value at a key is the number
\* of completions that carry that date.
C5_WeeklyProgress ==
    progress.done =>
        LET c == load_data(file).completed_challenges
        IN /\ DOMAIN progress.value = Window \cup {c[i].date : i \in 1..Len(c)}
           /\ Cardinality(Window) = 7
           /\ \A k \in DOMAIN progress.value :
                 progress.value[k] = Cardinality({i \in 1..Len(c) : c[i].date = k})

\* A date before the window, a day of the window with two completions and
\* a day of the window with none.
C5_Witness ==
    /\ progress.done
    /\ \E k \in DOMAIN progress.value : k \notin Window
    /\ \E k \in Window : progress.value[k] = 2
    /\ \E k \in Window : progress.value[k] = 0

\* C6: when two sessions have loaded the same document before either saves
\* and each likes the same post, then after both saves the persisted
\* like-count of the post is the loaded one plus 1, not plus 2.
C6_LostLike ==
    \A s \in Sessions : \A t \in Sessions :
        RacedLikes(s, t) =>
            /\ liked[s].id \in PostIds(load_data(file))
            /\ PostOf(load_data(file), liked[s].id).likes = liked[s].seen + 1

C6_Witness == \E s \in Sessions : \E t \in Sessions : RacedLikes(s, t)

\* C7 as stated: whatever the interleaving, a save that drops a post from
\* the persisted community_posts is the save of a delete of that post by a
\* session logged in as its author.
C7_OnlyAuthorDeletes ==
    [][\A s \in Sessions : Completes(s) =>
          \A id \in PostIds(committed) \ PostIds(committed') : AuthorDelete(s, id)]_vars

\* C7 amended: the save of a cycle that overlapped no other session's cycle
\* drops a post from the persisted community_posts only as the delete of
\* that post by a session logged in as its author.
C7_CleanCycleOnlyAuthorDeletes ==
    [][\A s \in Sessions : (Completes(s) /\ win[s] = "clean") =>
          \A id \in PostIds(committed) \ PostIds(committed') : AuthorDelete(s, id)]_vars

\* A session of another user is about to save, in a cycle that overlapped
\* none, while a post is persisted.
C7_Witness ==
    \E s \in Sessions : \E id \in PostIds(committed) :
        /\ pc[s] = "write"
        /\ win[s] = "clean"
        /\ auth[s] # PostOf(committed, id).author
        /\ op[s].kind \in {"post", "like", "save_entry", "complete", "login"}

\* C8: in serial runs a username of the persisted users keeps its
\* joined-date in every later persisted document, and a login with a name
\* that is in users ends without a save.
C8_JoinedOnce ==
    [][/\ \A u \in UserNames(committed) :
             /\ u \in UserNames(committed')
             /\ JoinedOf(committed', u) = JoinedOf(committed, u)
       /\ \A s \in Sessions :
             (pc[s] = "loaded" /\ auth[s] = NoUser /\ auth'[s] \in UserNames(committed))
                => (pc'[s] = "idle" /\ file' = file)]_vars

\* The login page has loaded, on a later day, a document with two users,
\* one of whom joined on an earlier day.
C8_Witness ==
    \E s \in Sessions : \E u \in UserNames(committed) :
        /\ pc[s] = "loaded"
        /\ auth[s] = NoUser
        /\ data[s] = committed
        /\ FromIsoFormat(JoinedOf(committed, u)) < today
        /\ Len(committed.users) = 2

C10_LikesCount ==
    /\ [][\A s \in Sessions : Completes(s) =>
             /\ op[s].kind = "post" => PostFrame(s)
             /\ op[s].kind = "like" => LikeFrame(s)
             /\ op[s].kind \in {"post", "like"} =>
                   /\ committed'.journal_entries = committed.journal_entries
                   /\ committed'.completed_challenges = committed.completed_challenges
                   /\ committed'.users = committed.users]_vars
    /\ [](\A i \in DOMAIN committed.community_posts :
             committed.community_posts[i].likes >= 0)

\* The second like of one of two persisted posts is about to be saved.
C10_Witness ==
    \E s \in Sessions :
        /\ pc[s] = "write"
        /\ op[s].kind = "like"
        /\ op[s].seen = 1
        /\ Len(committed.community_posts) = 2
====
